---- MODULE Spec2Model ----
(***************************************************************************)
(* TabbedWindow of electron/addon/tabs/index.js: the ordered tab list,     *)
(* the id -> BrowserView map, the id -> Tab configuration map, the current *)
(* view id, and the calls the controller makes on the native window        *)
(* (addBrowserView / removeBrowserView) and on the control panel channel   *)
(* (active-update / tabs-update).                                          *)
(*                                                                         *)
(* Every handler runs to completion on the main event loop, so each is one *)
(* action.  A handler is written as a composition of operators over a      *)
(* record of the object's fields, one operator per method of the class.    *)
(* Navigation events of a surface are delivered by the host later, as      *)
(* separate actions.                                                       *)
(*                                                                         *)
(* attached records the window's view list as the controller's own calls   *)
(* leave it: a view enters it by addBrowserView and leaves it only by      *)
(* removeBrowserView.  An exception a handler raises ends that handler     *)
(* (fx.threw); the process goes on with the state reached so far.          *)
(*                                                                         *)
(* Spec runs the commands alone on up to MaxOpened surfaces; SpecEvents    *)
(* runs them on up to MaxLoaded surfaces together with the address bar     *)
(* edits and the surfaces' navigation events.                              *)
(***************************************************************************)
EXTENDS Integers, Sequences, FiniteSets, TLC

\* ---------------------------------------------------------------- bounds
\* number of BrowserViews the host creates in one run
MaxOpened == 3
\* the same, in the runs that deliver navigation events (SpecEvents)
MaxLoaded == 2
\* number of navigation events / address bar edits delivered in one run
MaxEvents == 1
\* close-tab messages for ids that are no open tab, per run with the counter
MaxStray == 2

\* ------------------------------------------------------------- constants
\* null / undefined where the code expects a TabID (ids of the host are > 0)
NoId == 0
\* options.blankPage, options.startPage, options.blankTitle
BlankPage == ""
StartPage == "http://www.baidu.com"
BlankTitle == "blankTitle"

\* ids the host hands out, plus one id that it never hands out
NeverId == MaxOpened + 1
IdSpace == 0..NeverId
\* what the address bar sends, and the href the host reports for a navigation
Typed == {"https://y.test"}
Hrefs == {"https://x.test/"}
Titles == {"T"}
Favicons == {"fav.ico"}
BoolStr == {"true", "false"}

\* host: a surface that has not navigated has no history; nothing here goes
\* back, so no surface can go forward
FreshNav == [canGoBack |-> "false", canGoForward |-> "false"]
NavAnswers == {[canGoBack |-> b, canGoForward |-> "false"] : b \in BoolStr}

\* values of the views map and of the tab configuration map
Absent == [absent |-> TRUE]
Null == [null |-> TRUE]
EmptyTab == [f \in {} |-> ""]
IsTab(t) == t # Absent /\ t # Null

VARIABLES
  tabs,              \* this.tabs: ordered ids
  views,             \* this.views: id -> "undefined" | "null" | "view"
  defTabConfigs,     \* this.defTabConfigs: id -> Absent | Null | Tab
  defCurrentViewId,  \* this.defCurrentViewId
  ipc,               \* this.ipc is set
  attached,          \* views added to this.win and not removed from it
  destroyed,         \* ids whose webContents was destroyed
  marks,             \* ids whose webContents carries __IS_INITIALIZED__
  nextId,            \* id the host gives the next BrowserView
  canGo,             \* host: what canGoBack() / canGoForward() of a surface answer
  listeners,         \* id -> number of times loadURL installed its handlers on it
  listening,         \* ipcMain's listeners: pairs <<channel, function>>
  winClosed,         \* this.win was closed (win.isDestroyed())
  winShown,          \* win.show() was called
  tabItemCount,      \* TabsAddon: this.cfg.tabItemCount
  events,            \* surface events delivered so far
  call,              \* the handler that ran last and its arguments
  fx                 \* the calls it made on the window, the channel, the emitter

\* ids a command can name: those handed out so far, and one never handed out
Ids == 1..(nextId - 1) \cup {NeverId}

vars == <<tabs, views, defTabConfigs, defCurrentViewId, ipc, attached,
          destroyed, marks, nextId, canGo, listeners, listening, winClosed,
          winShown, tabItemCount, events, call, fx>>

\* ------------------------------------------------------------- sequences
Range(s) == {s[i] : i \in 1..Len(s)}

\* Array.prototype.indexOf: 0-based, -1 when absent
IndexOf(s, x) ==
  IF x \in Range(s) THEN (CHOOSE i \in 1..Len(s) : s[i] = x /\ \A j \in 1..(i-1) : s[j] # x) - 1
  ELSE -1

\* s[i] of a JS array, 0-based: undefined (NoId) outside the array
At(s, i) == IF i >= 0 /\ i < Len(s) THEN s[i + 1] ELSE NoId

\* s.splice(i, 0, x) for 0 <= i <= s.length
Splice(s, i, x) == SubSeq(s, 1, i) \o <<x>> \o SubSeq(s, i + 1, Len(s))

\* a faulty filter: the id stays in the array
FilterKeepsAll(s, x) == s

\* s.filter(v => v !== x)
Filter(s, x) == SelectSeq(s, LAMBDA v : v # x)

\* { ...a, ...b }
Spread(a, b) == [f \in (DOMAIN a) \cup (DOMAIN b) |-> IF f \in DOMAIN b THEN b[f] ELSE a[f]]

\* the channels setChannel listens on
ChannelNames == {"act", "close-tab", "control-ready", "new-tab", "switch-tab", "url-change"}

\* who sends a command: the window's own control surface or another one
Senders == {"own", "other"}

\* names a control surface sends with 'act': the four of the toolbar, another
\* method every surface has, and a name that is no property of a surface
ActNames == {"reload", "stop", "goBack", "goForward", "openDevTools", "bogus"}

\* the names among ActNames that are functions of a webContents
SurfaceMethods == {"reload", "stop", "goBack", "goForward", "openDevTools"}

\* the urls a page asks a new target for
TargetUrls == {"https://x.test", "about:blank"}

\* the dispositions of such a request
Dispositions == {"new-window", "foreground-tab", "background-tab"}

\* new URL(url).host
Host(url) == IF url = "about:blank" THEN "" ELSE "x.test"

\* the elements of a set of numbers, smallest first
RECURSIVE Ascending(_)
Ascending(S) ==
  IF S = {} THEN <<>>
  ELSE LET m == CHOOSE x \in S : \A y \in S : x <= y
       IN <<m>> \o Ascending(S \ {m})

\* the tabIds of tabs.value as the control panel's 'tabs-update' listener
\* builds it: Object.keys(confs) lists the number keys smallest first, then
\* the key 'null'; the keys with a null value are filtered out
tabsValue(confs) ==
  LET keys == {i \in IdSpace : IsTab(confs[i])}
  IN Ascending(keys \ {NoId}) \o (IF NoId \in keys THEN <<NoId>> ELSE <<>>)

\* -------------------------------------------------------------- the object
NoFx == [removed |-> <<>>, added |-> <<>>, active |-> <<>>, snapshots |-> <<>>,
         loaded |-> <<>>, emitted |-> <<>>, acted |-> <<>>, guests |-> <<>>,
         threw |-> FALSE]

This == [tabs |-> tabs, views |-> views, defTabConfigs |-> defTabConfigs,
         defCurrentViewId |-> defCurrentViewId, ipc |-> ipc, attached |-> attached,
         destroyed |-> destroyed, marks |-> marks, canGo |-> canGo,
         listeners |-> listeners, listening |-> listening, winClosed |-> winClosed,
         winShown |-> winShown, tabItemCount |-> tabItemCount, fx |-> NoFx]

\* get currentView: the id of the view, NoId for null / undefined
currentView(s) ==
  IF s.defCurrentViewId # NoId /\ s.views[s.defCurrentViewId] = "view"
  THEN s.defCurrentViewId ELSE NoId

\* set currentViewId
setCurrentViewId(s, id) ==
  [s EXCEPT !.defCurrentViewId = id,
            !.fx.active = IF s.ipc THEN Append(@, id) ELSE @]

\* a faulty tabConfigs setter: nothing is sent
setTabConfigsSilent(s, v) == [s EXCEPT !.defTabConfigs = v]

\* set tabConfigs
setTabConfigs(s, v) ==
  [s EXCEPT !.defTabConfigs = v,
            !.fx.snapshots = IF s.ipc THEN Append(@, [confs |-> v, tabs |-> s.tabs]) ELSE @]

destroyView(s, viewId) ==
  IF s.views[viewId] = "view"
  THEN [s EXCEPT !.destroyed = @ \cup {viewId}, !.views[viewId] = "null"]
  ELSE s

\* loadURL: installs the handlers on a webContents that does not carry the
\* mark, then navigates and sets the mark
loadURL(s, url) ==
  LET cv == currentView(s) IN
  IF url = "" \/ cv = NoId THEN s
  ELSE [s EXCEPT !.marks = @ \cup {cv},
                 !.listeners[cv] = IF cv \in s.marks THEN @ ELSE @ + 1,
                 !.fx.loaded = Append(@, <<cv, url>>)]

\* a faulty setCurrentView: the current view is not removed from the window
setCurrentViewKeepsPrevious(s, viewId, hostThrows) ==
  IF viewId = NoId THEN s
  ELSE IF s.views[viewId] = "view"
       THEN setCurrentViewId([s EXCEPT !.attached = @ \cup {viewId},
                                       !.fx.added = Append(@, viewId)], viewId)
       ELSE [s EXCEPT !.fx.threw = TRUE]

\* setCurrentView.  hostThrows: win.addBrowserView(undefined | null) raises in
\* the host; when the host lets it pass, currentWebContents.focus() raises.
setCurrentView(s, viewId, hostThrows) ==
  IF viewId = NoId THEN s
  ELSE
    LET cv == currentView(s)
        s1 == IF cv # NoId
              THEN [s EXCEPT !.attached = @ \ {cv}, !.fx.removed = Append(@, cv)]
              ELSE s
    IN IF s1.views[viewId] = "view"
       THEN setCurrentViewId([s1 EXCEPT !.attached = @ \cup {viewId},
                                        !.fx.added = Append(@, viewId)], viewId)
       ELSE IF hostThrows
            THEN [s1 EXCEPT !.fx.threw = TRUE]
            ELSE [setCurrentViewId(s1, viewId) EXCEPT !.fx.threw = TRUE]

\* a faulty setTabConfig: the entry is rebuilt without ...tab
setTabConfigWithoutTab(s, viewId, kv) ==
  LET can == IF s.views[viewId] = "view" THEN s.canGo[viewId]
             ELSE [canGoBack |-> "undefined", canGoForward |-> "undefined"]
  IN setTabConfigs(s, [s.defTabConfigs EXCEPT ![viewId] = Spread(can, kv)])

setTabConfig(s, viewId, kv) ==
  LET tab == s.defTabConfigs[viewId]
      old == IF IsTab(tab) THEN tab ELSE EmptyTab
      can == IF s.views[viewId] = "view" THEN s.canGo[viewId]
             ELSE [canGoBack |-> "undefined", canGoForward |-> "undefined"]
  IN setTabConfigs(s, [s.defTabConfigs EXCEPT ![viewId] = Spread(Spread(old, can), kv)])

\* tabs after newTab's insertion of id
insertTab(order, appendTo, id) ==
  IF appendTo # NoId
  THEN Splice(order, IndexOf(order, appendTo) + 1, id)
  ELSE Append(order, id)

\* newTab(url, appendTo) on a view the host numbers id
newTab(s, url, appendTo, id) ==
  LET s1 == [s EXCEPT !.tabs = insertTab(@, appendTo, id), !.views[id] = "view"]
      s2 == setCurrentView(s1, id, TRUE)
      s3 == loadURL(s2, IF url # "" THEN url ELSE BlankPage)
      s4 == setTabConfig(s3, id, [title |-> BlankTitle])
  IN [s4 EXCEPT !.fx.emitted = Append(@, "new-tab")]

\* a faulty nextIndex: always the index after, also past the end
nextIndexAfter(order, removeIndex) == removeIndex + 1

\* the index close-tab activates when it removes tabs[removeIndex]
nextIndex(order, removeIndex) ==
  IF removeIndex = Len(order) - 1 THEN removeIndex - 1 ELSE removeIndex + 1

\* a faulty 'close-tab' listener: the neighbour is activated whichever tab is closed
closeTabAlwaysSwitches(s, id, hostThrows) ==
  LET s1 == setCurrentView(s, At(s.tabs, nextIndex(s.tabs, IndexOf(s.tabs, id))), hostThrows)
  IN IF s1.fx.threw THEN s1
     ELSE LET s2 == [s1 EXCEPT !.tabs = Filter(@, id)]
              s3 == setTabConfigs(s2, [s2.defTabConfigs EXCEPT ![id] = Null])
              s4 == destroyView(s3, id)
          IN [s4 EXCEPT !.fx.emitted = Append(@, "close-tab")]

\* the 'close-tab' listener
closeTab(s, id, hostThrows) ==
  LET s1 == IF id = s.defCurrentViewId
            THEN setCurrentView(s, At(s.tabs, nextIndex(s.tabs, IndexOf(s.tabs, id))), hostThrows)
            ELSE s
  IN IF s1.fx.threw THEN s1
     ELSE LET s2 == [s1 EXCEPT !.tabs = Filter(@, id)]
              s3 == setTabConfigs(s2, [s2.defTabConfigs EXCEPT ![id] = Null])
              s4 == destroyView(s3, id)
          IN [s4 EXCEPT !.fx.emitted = Append(@, "close-tab")]

\* a faulty 'url-change' listener: the url is also loaded
urlChangeNavigates(s, url) == loadURL(setTabConfig(s, s.defCurrentViewId, [url |-> url]), url)

\* the 'url-change' listener
urlChange(s, url) == setTabConfig(s, s.defCurrentViewId, [url |-> url])

\* a faulty 'control-ready' listener: this.ipc is set after newTab
controlReadyLateIpc(s, id) ==
  LET s2 == newTab(s, IF StartPage # "" THEN StartPage ELSE "", NoId, id)
      s3 == [s2 EXCEPT !.ipc = TRUE, !.winShown = TRUE, !.fx.emitted = Append(@, "win.show")]
  IN [s3 EXCEPT !.fx.emitted = Append(@, "control-ready")]

\* the 'control-ready' listener, on a view the host numbers id
controlReady(s, id) ==
  LET s1 == [s EXCEPT !.ipc = TRUE]
      s2 == newTab(s1, IF StartPage # "" THEN StartPage ELSE "", NoId, id)
      s3 == [s2 EXCEPT !.winShown = TRUE, !.fx.emitted = Append(@, "win.show")]
  IN [s3 EXCEPT !.fx.emitted = Append(@, "control-ready")]

\* webContentsAct of setChannel: the 'act' listener
webContentsAct(s, actionName) ==
  LET cv == currentView(s) IN
  IF cv # NoId /\ actionName \in SurfaceMethods
  THEN IF actionName = "reload" /\ cv \notin s.marks
       THEN s
       ELSE [s EXCEPT !.fx.acted = Append(@, <<cv, actionName>>)]
  ELSE s

\* onNewWindow, the 'new-window' handler loadURL installs on the surface id;
\* newId is the id the host gives the view of a new tab
onNewWindow(s, id, newUrl, disposition, newId) ==
  IF Host(newUrl) = "" THEN s
  ELSE IF disposition = "new-window"
       THEN [s EXCEPT !.fx.guests = Append(@, "shown")]
       ELSE IF disposition = "foreground-tab"
            THEN [newTab(s, newUrl, id, newId) EXCEPT !.fx.guests = Append(@, "hidden")]
            ELSE newTab(s, newUrl, id, newId)

\* the handler newTab gives setWindowOpenHandler: details.disposition is not read
windowOpenHandler(s, url, disposition, newId) == newTab(s, url, NoId, newId)

\* a listener of channels, by the name of its channel; c holds its arguments
channels(s, c, hostThrows, newId) ==
  CASE c.op = "act" -> webContentsAct(s, c.name)
    [] c.op = "close-tab" -> closeTab(s, c.id, hostThrows)
    [] c.op = "control-ready" -> controlReady(s, newId)
    [] c.op = "new-tab" -> newTab(s, c.url, NoId, newId)
    [] c.op = "switch-tab" -> setCurrentView(s, c.id, hostThrows)
    [] c.op = "url-change" -> urlChange(s, c.url)

\* a faulty wrapper: e.sender is not compared
wrapperAnySender(s, sender, after) == IF ~s.winClosed THEN after ELSE s

\* the function setChannel wraps each listener in; after is the object as the
\* listener leaves it
wrapper(s, sender, after) == IF ~s.winClosed /\ sender = "own" THEN after ELSE s

\* ipcMain delivers a message of a channel to the functions registered on it
ipcMainEmit(s, name, sender, after) ==
  IF <<name, "listener">> \in s.listening THEN after
  ELSE IF <<name, "wrapper">> \in s.listening THEN wrapper(s, sender, after)
  ELSE s

\* this.tabs.forEach((id) => this.destroyView(id))
RECURSIVE destroyViews(_, _)
destroyViews(s, order) ==
  IF order = <<>> THEN s ELSE destroyViews(destroyView(s, Head(order)), Tail(order))

\* a faulty 'closed' handler: the views are left alone
closedWithoutDestroy(s) ==
  [s EXCEPT !.listening = @ \ {<<name, "listener">> : name \in ChannelNames},
            !.fx.emitted = Append(@, "closed")]

\* the handler of the window's 'closed' event: removeListener is given the
\* listeners of channels, ipcMain.on was given their wrappers
closed(s) ==
  LET s1 == [s EXCEPT !.listening = @ \ {<<name, "listener">> : name \in ChannelNames}]
      s2 == destroyViews(s1, s1.tabs)
  IN [s2 EXCEPT !.fx.emitted = Append(@, "closed")]

\* how many times name is in the sequence of emitted events
RECURSIVE Count(_, _)
Count(emitted, name) ==
  IF emitted = <<>> THEN 0
  ELSE (IF Head(emitted) = name THEN 1 ELSE 0) + Count(Tail(emitted), name)

\* the listeners TabsAddon puts on the tabbed window, run for the events a
\* handler emitted: 'new-tab' counts up, 'close-tab' counts down
customisedWinListener(s) ==
  [s EXCEPT !.tabItemCount = @ + Count(s.fx.emitted, "new-tab")
                               - Count(s.fx.emitted, "close-tab")]

\* TabsAddon.reactToIpcIdData for 'refreshWin':
\* tabbedWin.currentView.webContents.reload()
refreshWin(s) ==
  LET cv == currentView(s) IN
  IF cv = NoId THEN [s EXCEPT !.fx.threw = TRUE]
  ELSE [s EXCEPT !.fx.acted = Append(@, <<cv, "reload">>)]

\* ------------------------------------------------------------------ steps
Commit(s, c) ==
  /\ tabs' = s.tabs
  /\ views' = s.views
  /\ defTabConfigs' = s.defTabConfigs
  /\ defCurrentViewId' = s.defCurrentViewId
  /\ ipc' = s.ipc
  /\ attached' = s.attached
  /\ destroyed' = s.destroyed
  /\ marks' = s.marks
  /\ canGo' = s.canGo
  /\ listeners' = s.listeners
  /\ listening' = s.listening
  /\ winClosed' = s.winClosed
  /\ winShown' = s.winShown
  /\ tabItemCount' = s.tabItemCount
  /\ fx' = s.fx
  /\ call' = c

NoCall == [op |-> "none", id |-> NoId, url |-> "", appendTo |-> NoId, kv |-> EmptyTab,
           sender |-> "own", name |-> "", disposition |-> ""]

Init ==
  /\ tabs = <<>>
  /\ views = [i \in IdSpace |-> "undefined"]
  /\ defTabConfigs = [i \in IdSpace |-> Absent]
  /\ defCurrentViewId = NoId
  /\ ipc = FALSE
  /\ attached = {}
  /\ destroyed = {}
  /\ marks = {}
  /\ nextId = 1
  /\ canGo = [i \in IdSpace |-> FreshNav]
  /\ listeners = [i \in IdSpace |-> 0]
  /\ listening = {<<name, "wrapper">> : name \in ChannelNames}
  /\ winClosed = FALSE
  /\ winShown = FALSE
  /\ tabItemCount = 0
  /\ events = 0
  /\ call = NoCall
  /\ fx = NoFx

\* newTab(url, appendTo): the 'new-tab' command (appendTo null), a window.open
\* or new-window request of a tab, or a direct call
\* The commands come from the control panel, which sends 'control-ready' when
\* it is mounted, before it can send anything else: ipc is set when they run.
NewTabUpTo(max) ==
  \E url \in {"", "https://x.test"}, appendTo \in Ids \cup {NoId} :
    /\ ipc
    /\ nextId <= max
    /\ Commit(newTab(This, url, appendTo, nextId),
              [NoCall EXCEPT !.op = "new-tab", !.id = nextId, !.url = url, !.appendTo = appendTo,
                             !.kv = [title |-> BlankTitle]])
    /\ nextId' = nextId + 1
    /\ UNCHANGED events

NewTab == NewTabUpTo(MaxOpened)

CloseTab ==
  \E id \in Ids, hostThrows \in BOOLEAN :
    /\ ipc
    /\ Commit(closeTab(This, id, hostThrows), [NoCall EXCEPT !.op = "close-tab", !.id = id])
    /\ UNCHANGED <<nextId, events>>

\* the 'switch-tab' listener: switchTab(id)
SwitchTab ==
  \E id \in Ids, hostThrows \in BOOLEAN :
    /\ ipc
    /\ Commit(setCurrentView(This, id, hostThrows), [NoCall EXCEPT !.op = "switch-tab", !.id = id])
    /\ UNCHANGED <<nextId, events>>

\* the 'url-change' listener
UrlChange ==
  \E url \in Typed :
    /\ ipc
    /\ events < MaxEvents
    /\ Commit(urlChange(This, url),
              [NoCall EXCEPT !.op = "url-change", !.id = defCurrentViewId, !.url = url,
                             !.kv = [url |-> url]])
    /\ events' = events + 1
    /\ UNCHANGED nextId

\* the 'control-ready' listener
ControlReadyUpTo(max) ==
  /\ nextId <= max
  /\ Commit(controlReady(This, nextId),
            [NoCall EXCEPT !.op = "control-ready", !.id = nextId, !.url = StartPage,
                           !.kv = [title |-> BlankTitle]])
  /\ nextId' = nextId + 1
  /\ UNCHANGED events

ControlReady == ControlReadyUpTo(MaxOpened)

\* a faulty handler: it writes to the entry of the active tab
SurfaceEventOnActive(s, name, id, kv) ==
  /\ events < MaxEvents
  /\ id \in marks
  /\ views[id] = "view"
  /\ Commit(setTabConfig(s, s.defCurrentViewId, kv), [NoCall EXCEPT !.op = name, !.id = id, !.kv = kv])
  /\ events' = events + 1
  /\ UNCHANGED nextId

\* a navigation event of the surface id reaches the handler loadURL installed
\* on it: the handler calls setTabConfig(id, kv)
SurfaceEvent(s, name, id, kv) ==
  /\ events < MaxEvents
  /\ id \in marks
  /\ views[id] = "view"
  /\ Commit(setTabConfig(s, id, kv), [NoCall EXCEPT !.op = name, !.id = id, !.kv = kv])
  /\ events' = events + 1
  /\ UNCHANGED nextId

DidStartLoading ==
  \E id \in Ids : SurfaceEvent(This, "did-start-loading", id, [isLoading |-> "true"])

\* did-start-navigation of the main frame (other frames are ignored); the
\* page the surface leaves may enter its history
DidStartNavigation ==
  \E id \in Ids, href \in Hrefs, nav \in NavAnswers :
    SurfaceEvent([This EXCEPT !.canGo[id] = nav], "did-start-navigation", id,
                 [url |-> href, href |-> href])

WillRedirect ==
  \E id \in Ids, href \in Hrefs :
    SurfaceEvent(This, "will-redirect", id, [url |-> href, href |-> href])

PageTitleUpdated ==
  \E id \in Ids, title \in Titles :
    SurfaceEvent(This, "page-title-updated", id, [title |-> title])

PageFaviconUpdated ==
  \E id \in Ids, favicon \in Favicons :
    SurfaceEvent(This, "page-favicon-updated", id, [favicon |-> favicon])

DidStopLoading ==
  \E id \in Ids : SurfaceEvent(This, "did-stop-loading", id, [isLoading |-> "false"])

Next ==
  \/ NewTab
  \/ CloseTab
  \/ SwitchTab
  \/ ControlReady

Spec == Init /\ [][Next]_vars

\* the same commands on fewer surfaces, with the surfaces' navigation events
LoadedNewTab == NewTabUpTo(MaxLoaded)
LoadedControlReady == ControlReadyUpTo(MaxLoaded)

NextEvents ==
  \/ LoadedNewTab
  \/ CloseTab
  \/ SwitchTab
  \/ LoadedControlReady
  \/ UrlChange
  \/ DidStartLoading
  \/ DidStartNavigation
  \/ WillRedirect
  \/ PageTitleUpdated
  \/ PageFaviconUpdated
  \/ DidStopLoading

SpecEvents == Init /\ [][NextEvents]_vars

\* the arguments a control surface sends on a channel
Args(name) ==
  CASE name = "act" -> {[NoCall EXCEPT !.op = name, !.name = a] : a \in ActNames}
    [] name \in {"close-tab", "switch-tab"} -> {[NoCall EXCEPT !.op = name, !.id = i] : i \in Ids}
    [] name = "control-ready" ->
         {[NoCall EXCEPT !.op = name, !.id = nextId, !.url = StartPage, !.kv = [title |-> BlankTitle]]}
    [] name = "new-tab" ->
         {[NoCall EXCEPT !.op = name, !.id = nextId, !.url = u, !.kv = [title |-> BlankTitle]] :
            u \in {"", "https://x.test"}}
    [] name = "url-change" ->
         {[NoCall EXCEPT !.op = name, !.id = defCurrentViewId, !.url = u, !.kv = [url |-> u]] :
            u \in Typed}

\* the messages of the six channels, each with the host's answer to
\* addBrowserView(undefined) where the listener can come to call it
Messages ==
  {m \in (UNION {Args(name) : name \in ChannelNames}) \X BOOLEAN :
     m[2] => m[1].op \in {"close-tab", "switch-tab"}}

\* a message on one of the six channels, from any control surface, before or
\* after the window is closed.  The window's own control surface sends
\* 'control-ready' first.
Command ==
  \E sender \in Senders, m \in Messages :
    LET c == m[1]
        hostThrows == m[2] IN
    /\ sender = "own" /\ c.op # "control-ready" => ipc
    /\ c.op \in {"control-ready", "new-tab"} => nextId <= MaxLoaded
    /\ c.op = "url-change" => events < MaxEvents
    /\ Commit(ipcMainEmit(This, c.op, sender, channels(This, c, hostThrows, nextId)),
              [c EXCEPT !.sender = sender])
    /\ nextId' = IF views'[nextId] = "view" THEN nextId + 1 ELSE nextId
    /\ events' = IF c.op = "url-change" THEN events + 1 ELSE events

\* the window is closed: it is destroyed and its 'closed' handler runs
WinClosed ==
  /\ ~winClosed
  /\ Commit(closed([This EXCEPT !.winClosed = TRUE]), [NoCall EXCEPT !.op = "closed"])
  /\ UNCHANGED <<nextId, events>>

\* the page of tab id asks for a new target and the host emits 'new-window'
\* on its surface, where loadURL has installed onNewWindow
NewWindowEvent ==
  \E id \in Ids, newUrl \in TargetUrls, disposition \in Dispositions :
    /\ views[id] = "view"
    /\ id \in marks
    /\ disposition # "new-window" => nextId <= MaxLoaded
    /\ Commit(onNewWindow(This, id, newUrl, disposition, nextId),
              [NoCall EXCEPT !.op = "new-window", !.id = nextId, !.url = newUrl,
                             !.appendTo = id, !.disposition = disposition])
    /\ nextId' = IF views'[nextId] = "view" THEN nextId + 1 ELSE nextId
    /\ UNCHANGED events

\* the page of tab id asks for a new target and the host calls the handler
\* newTab gave setWindowOpenHandler
WindowOpen ==
  \E id \in Ids, url \in TargetUrls, disposition \in Dispositions :
    /\ views[id] = "view"
    /\ nextId <= MaxLoaded
    /\ Commit(windowOpenHandler(This, url, disposition, nextId),
              [NoCall EXCEPT !.op = "window-open", !.id = nextId, !.url = url,
                             !.appendTo = id, !.disposition = disposition])
    /\ nextId' = nextId + 1
    /\ UNCHANGED events

\* the channels of one window among several, and its closing
NextWindow ==
  \/ Command
  \/ WinClosed

SpecWindow == Init /\ [][NextWindow]_vars

\* the commands and the requests of the pages for new targets
NextTargets ==
  \/ LoadedNewTab
  \/ CloseTab
  \/ SwitchTab
  \/ LoadedControlReady
  \/ NewWindowEvent
  \/ WindowOpen

SpecTargets == Init /\ [][NextTargets]_vars

\* newTab(url, appendTo) called by the application that made the window, which
\* need not wait for the control panel
DirectNewTab ==
  \E url \in {"", "https://x.test"} :
    /\ ~ipc
    /\ nextId <= MaxLoaded
    /\ Commit(newTab(This, url, NoId, nextId),
              [NoCall EXCEPT !.op = "new-tab", !.id = nextId, !.url = url,
                             !.kv = [title |-> BlankTitle]])
    /\ nextId' = nextId + 1
    /\ UNCHANGED events

\* the commands and the navigation events, with tabs made before the control
\* panel is mounted
NextEarly ==
  \/ DirectNewTab
  \/ NextEvents

SpecEarly == Init /\ [][NextEarly]_vars

\* a message of the window's own control panel on one of the six channels, in
\* the application TabsAddon makes: its listeners run for what the handler emits
AddonCommand ==
  \E m \in Messages :
    LET c == m[1]
        hostThrows == m[2] IN
    /\ c.op # "control-ready" => ipc
    /\ c.op \in {"control-ready", "new-tab"} => nextId <= MaxLoaded
    /\ c.op = "url-change" => events < MaxEvents
    /\ (c.op = "close-tab" /\ views[c.id] # "view") => Len(tabs) - tabItemCount < MaxStray
    /\ Commit(customisedWinListener(
                ipcMainEmit(This, c.op, "own", channels(This, c, hostThrows, nextId))), c)
    /\ nextId' = IF views'[nextId] = "view" THEN nextId + 1 ELSE nextId
    /\ events' = IF c.op = "url-change" THEN events + 1 ELSE events

\* the reload button of the window chrome: 'toMain' with 'refreshWin'
RefreshWin ==
  /\ Commit(refreshWin(This), [NoCall EXCEPT !.op = "refreshWin"])
  /\ UNCHANGED <<nextId, events>>

\* the tabbed window inside TabsAddon
NextAddon ==
  \/ AddonCommand
  \/ RefreshWin

SpecAddon == Init /\ [][NextAddon]_vars

\* ----------------------------------------------------------------- claims
\* ids whose tab is open: handed out by the host and not closed since
OpenTabs == {i \in 1..(nextId - 1) : views[i] = "view"}

\* the id next to id in order: the one after it, the one before it when id is last
Neighbour(order, id) ==
  LET i == CHOOSE k \in 1..Len(order) : order[k] = id
  IN IF i = Len(order) THEN order[i - 1] ELSE order[i + 1]

\* order with id put right after the id a
InsertedAfter(order, a, id) ==
  LET i == CHOOSE k \in 1..Len(order) : order[k] = a
  IN [k \in 1..(Len(order) + 1) |->
        IF k <= i THEN order[k] ELSE IF k = i + 1 THEN id ELSE order[k - 1]]

\* C1: whatever newTab and close-tab calls were made, the order sequence holds
\* exactly the ids of the open tabs, each once.
C1_OrderIsOpenTabs ==
  /\ Range(tabs) = OpenTabs
  /\ Len(tabs) = Cardinality(OpenTabs)

\* C1 witness: tabs were opened and closed, and two of three are left, the
\* later one first.
C1_Witness ==
  /\ call.op = "close-tab"
  /\ nextId = 4
  /\ Len(tabs) = 2
  /\ tabs[1] > tabs[2]

\* C2: close-tab of the active tab with at least two tabs open makes the tab
\* after it in the order active, and the tab before it when it is the last.
C2_CloseActivatesNeighbour ==
  [][(/\ call'.op = "close-tab"
      /\ call'.id = defCurrentViewId
      /\ call'.id \in Range(tabs)
      /\ Len(tabs) >= 2)
     => defCurrentViewId' = Neighbour(tabs, call'.id)]_vars

\* C2 witness: order [1,2,3] with 2 active; close-tab 2 detached 2 and
\* attached 3.
C2_Witness ==
  /\ call.op = "close-tab"
  /\ call.id = 2
  /\ tabs = <<1, 3>>
  /\ fx.removed = <<2>>
  /\ fx.added = <<3>>
  /\ defCurrentViewId = 3

\* C3 (as claimed): close-tab of the only tab leaves no active selection and an
\* empty order.
C3_CloseLastLeavesNone ==
  [][(call'.op = "close-tab" /\ tabs = <<call'.id>>)
     => (tabs' = <<>> /\ defCurrentViewId' = NoId)]_vars

\* C4 (as claimed): switch-tab to the tab that is already active detaches
\* nothing, attaches nothing and sends no active-update.
C4_SwitchToActiveIsSilent ==
  [][(/\ call'.op = "switch-tab"
      /\ call'.id = defCurrentViewId
      /\ views[call'.id] = "view")
     => (fx'.removed = <<>> /\ fx'.added = <<>> /\ fx'.active = <<>>)]_vars

\* C5 (as claimed): switch-tab to an id that is no open tab changes nothing and
\* raises nothing.
C5_SwitchToAbsentIsNoOp ==
  [][(call'.op = "switch-tab" /\ views[call'.id] # "view")
     => (/\ defCurrentViewId' = defCurrentViewId
         /\ attached' = attached
         /\ tabs' = tabs
         /\ defTabConfigs' = defTabConfigs
         /\ ~fx'.threw)]_vars

\* C6 (as claimed): close-tab of an id that is no open tab changes nothing,
\* adds no key to the configuration map, emits no close-tab and sends no
\* tabs-update.
C6_CloseAbsentIsNoOp ==
  [][(call'.op = "close-tab" /\ views[call'.id] # "view")
     => (/\ tabs' = tabs
         /\ defTabConfigs' = defTabConfigs
         /\ defCurrentViewId' = defCurrentViewId
         /\ views' = views
         /\ fx'.emitted = <<>>
         /\ fx'.snapshots = <<>>)]_vars

\* C7 (as claimed): newTab puts the new id right after appendTo when appendTo
\* is given and in the order, and at the end otherwise.
C7_InsertAfterElseAppend ==
  [][call'.op = "new-tab"
     => tabs' = IF call'.appendTo # NoId /\ call'.appendTo \in Range(tabs)
                THEN InsertedAfter(tabs, call'.appendTo, call'.id)
                ELSE Append(tabs, call'.id)]_vars

\* C8 (as claimed): when newTab returns, the new tab is the active selection
\* and its surface is the only one attached to the window.
C8_NewTabIsTheOneAttached ==
  call.op \in {"new-tab", "control-ready"}
    => (defCurrentViewId = call.id /\ attached = {call.id})

\* C9 (as claimed): when newTab(url) with a non-empty url returns, the url of
\* the new tab's entry is that url.
C9_NewTabStoresUrl ==
  (call.op \in {"new-tab", "control-ready"} /\ call.url # "")
    => (/\ IsTab(defTabConfigs[call.id])
        /\ "url" \in DOMAIN defTabConfigs[call.id]
        /\ defTabConfigs[call.id]["url"] = call.url)

\* the handlers that call setTabConfig(call.id, call.kv)
SetTabConfigOps ==
  {"new-tab", "control-ready", "url-change", "did-start-loading", "did-start-navigation",
   "will-redirect", "page-title-updated", "page-favicon-updated", "did-stop-loading"}

\* C10: after setTabConfig(id, kv) on an open tab, the tab's entry, in the map
\* and in the tabs-update payload, has every field of kv with kv's value and
\* every field it had before that kv does not name, canGoBack and
\* canGoForward apart, with the value it had.
C10_SetTabConfigLosesNoField ==
  [][(call'.op \in SetTabConfigOps /\ views'[call'.id] = "view")
     => LET old == defTabConfigs[call'.id]
            new == defTabConfigs'[call'.id]
            kv == call'.kv
            sent == fx'.snapshots[Len(fx'.snapshots)].confs[call'.id]
        IN /\ IsTab(new)
           /\ \A f \in DOMAIN kv : f \in DOMAIN new /\ new[f] = kv[f]
           /\ IsTab(old) =>
                \A f \in (DOMAIN old) \ ((DOMAIN kv) \cup {"canGoBack", "canGoForward"}) :
                   f \in DOMAIN new /\ new[f] = old[f]
           /\ fx'.snapshots # <<>>
           /\ sent = new]_vars

\* C10 witness: a navigation of a tab set url and href; the title newTab had
\* set is still there.
C10_Witness ==
  /\ call.op = "did-start-navigation"
  /\ IsTab(defTabConfigs[call.id])
  /\ DOMAIN defTabConfigs[call.id] = {"title", "canGoBack", "canGoForward", "url", "href"}
  /\ defTabConfigs[call.id]["title"] = BlankTitle
  /\ defTabConfigs[call.id]["url"] = call.kv["url"]

\* C11 (as claimed): setTabConfig for an id with no open tab is a no-op; the
\* 'url-change' command arriving while the active id refers to no open tab
\* creates no entry in the metadata map and sends nothing.
C11_SetTabConfigAbsentIsNoOp ==
  [][(call'.op = "url-change" /\ views[call'.id] # "view")
       => (defTabConfigs' = defTabConfigs /\ fx'.snapshots = <<>>)]_vars

\* C12 (as claimed): every open tab, opened with or without a url, has the
\* navigation handlers installed on its surface exactly once.
C12_HandlersInstalledOnce == \A id \in OpenTabs : listeners[id] = 1

\* C13 (as claimed): a request of a page for a new target, with a disposition
\* that is neither new-window nor foreground-tab, adds the new tab to the order
\* and leaves the active selection and the attached surface as they were.
C13_BackgroundRequestDoesNotActivate ==
  [][(call'.op \in {"new-window", "window-open"} /\ call'.disposition = "background-tab"
        /\ Host(call'.url) # "")
       => (call'.id \in Range(tabs') /\ defCurrentViewId' = defCurrentViewId
             /\ attached' = attached)]_vars

\* C14 (as claimed): a request of a page for a new target with disposition
\* new-window opens no tab: order, metadata map and active selection stay.
C14_NewWindowRequestOpensNoTab ==
  [][(call'.op \in {"new-window", "window-open"} /\ call'.disposition = "new-window")
       => (tabs' = tabs /\ defTabConfigs' = defTabConfigs
             /\ defCurrentViewId' = defCurrentViewId)]_vars

\* C15: a message on one of the six channels whose sender is not the window's
\* own control surface, or that arrives when the window is destroyed, changes
\* nothing of the controller and calls nothing on the window or its surfaces.
C15_ForeignOrDestroyedChangesNothing ==
  [][(call'.op \in ChannelNames /\ (call'.sender # "own" \/ winClosed))
       => (/\ UNCHANGED <<tabs, views, defTabConfigs, defCurrentViewId, ipc, attached,
                          destroyed, marks, canGo, listeners, listening, winShown, nextId>>
           /\ fx' = NoFx)]_vars

\* another window's control surface asked to close the active tab of this
\* window, which has two: both are still there
C15_Witness ==
  /\ call.op = "close-tab" /\ call.sender = "other" /\ call.id = defCurrentViewId
  /\ ~winClosed /\ tabs = <<1, 2>> /\ views[call.id] = "view" /\ attached = {call.id}

\* C16: once the 'closed' handler has run, every view the controller created
\* is destroyed and no entry of views refers to a view.
C16_ClosedDestroysEveryView ==
  winClosed => /\ \A i \in IdSpace : views[i] # "view"
               /\ \A i \in 1..(nextId - 1) : i \in destroyed

\* the window was closed with tab 2 open and tab 1 closed before
C16_Witness ==
  /\ call.op = "closed" /\ winClosed /\ nextId = 3 /\ tabs = <<2>>
  /\ destroyed = {1, 2} /\ fx.emitted = <<"closed">>

\* C17 (as claimed): once the 'closed' handler has run, the six listeners are
\* removed from ipcMain, and no later message on a channel changes the order,
\* the metadata map, the views or the active selection.
C17_ClosedRemovesListeners ==
  [][(winClosed /\ call'.op \in ChannelNames)
       => (/\ \A name \in ChannelNames, fn \in {"wrapper", "listener"} :
                <<name, fn>> \notin listening
           /\ UNCHANGED <<tabs, defTabConfigs, views, defCurrentViewId>>)]_vars

\* C18 (as claimed): 'act' calls a method of the active surface only for
\* reload, stop, goBack and goForward; for every other name nothing is called.
C18_ActOnlyForFourNames ==
  [][(call'.op = "act" /\ call'.name \notin {"reload", "stop", "goBack", "goForward"})
       => fx'.acted = <<>>]_vars

\* C19: 'url-change' with an active tab sets the url of that tab's entry and
\* keeps its href, title, favicon and isLoading, every other entry, the order
\* and the active selection; it loads nothing.
C19_UrlChangeOnlySetsUrl ==
  [][(call'.op = "url-change" /\ views[call'.id] = "view")
       => LET id == call'.id
              old == defTabConfigs[id]
              new == defTabConfigs'[id]
          IN /\ IsTab(new) /\ "url" \in DOMAIN new /\ new["url"] = call'.url
             /\ IsTab(old) =>
                  \A f \in {"href", "title", "favicon", "isLoading"} :
                    IF f \in DOMAIN old
                    THEN f \in DOMAIN new /\ new[f] = old[f]
                    ELSE f \notin DOMAIN new
             /\ \A j \in IdSpace \ {id} : defTabConfigs'[j] = defTabConfigs[j]
             /\ tabs' = tabs
             /\ defCurrentViewId' = defCurrentViewId
             /\ fx'.loaded = <<>>
             /\ marks' = marks]_vars

\* the address bar changed while the second of two tabs was active: its entry
\* has the typed url and still its title
C19_Witness ==
  /\ call.op = "url-change" /\ call.id = defCurrentViewId /\ tabs = <<1, 2>>
  /\ call.id = 2 /\ IsTab(defTabConfigs[2])
  /\ DOMAIN defTabConfigs[2] = {"title", "canGoBack", "canGoForward", "url"}
  /\ defTabConfigs[2]["url"] = call.url /\ defTabConfigs[2]["title"] = BlankTitle
  /\ fx.loaded = <<>>

\* C20: when the 'control-ready' listener is done, the start-page tab exists
\* and is active, ipc was set before the tab was made, so that its
\* active-update and tabs-update were sent, and win.show() came after newTab.
C20_ControlReadyOpensThenShows ==
  call.op = "control-ready" =>
    /\ views[call.id] = "view" /\ call.id \in Range(tabs)
    /\ defCurrentViewId = call.id /\ call.id \in attached
    /\ IsTab(defTabConfigs[call.id]) /\ defTabConfigs[call.id]["title"] = BlankTitle
    /\ <<call.id, StartPage>> \in Range(fx.loaded)
    /\ ipc
    /\ fx.active = <<call.id>>
    /\ fx.snapshots # <<>>
    /\ IsTab(fx.snapshots[Len(fx.snapshots)].confs[call.id])
    /\ winShown
    /\ fx.emitted = <<"new-tab", "win.show", "control-ready">>

\* the first 'control-ready': tab 1 shows the start page and the window is shown
C20_Witness ==
  /\ call.op = "control-ready" /\ call.id = 1 /\ tabs = <<1>> /\ winShown
  /\ fx.active = <<1>> /\ Len(fx.snapshots) = 1 /\ fx.loaded = <<<<1, StartPage>>>>

\* C21 (as claimed): in every state the open, close and switch commands reach,
\* at most one surface is attached to the window, and a surface is attached if
\* and only if it is the one of the active selection, an id of the order with
\* a live surface; no surface of a closed tab is attached.
C21_AttachedIsTheActiveOne ==
  /\ Cardinality(attached) <= 1
  /\ \A i \in IdSpace :
       i \in attached <=> (/\ i = defCurrentViewId
                           /\ i \in Range(tabs)
                           /\ views[i] = "view"
                           /\ i \notin destroyed)

\* C22 (as claimed): once close-tab of a tab is done, the id is never again in
\* the order, its entry of views stays null and its metadata entry stays the
\* null close-tab wrote, whatever command or event follows.
C22_ClosedIsIrreversible ==
  [][\A i \in IdSpace :
       (i \in destroyed /\ views[i] = "null" /\ defTabConfigs[i] = Null)
         => (/\ i \notin Range(tabs')
             /\ views'[i] = "null"
             /\ defTabConfigs'[i] = Null)]_vars

\* C23: switch-tab to an open tab that is not the active one makes it the
\* active selection, removes the view that was active from the window, adds
\* the tab's view, sends active-update with the id, and leaves the order and
\* every metadata entry as they were.
C23_SwitchActivates ==
  [][(call'.op = "switch-tab" /\ views[call'.id] = "view" /\ call'.id # defCurrentViewId)
       => (/\ defCurrentViewId' = call'.id
           /\ call'.id \in attached'
           /\ views[defCurrentViewId] = "view" => defCurrentViewId \notin attached'
           /\ fx'.removed = IF views[defCurrentViewId] = "view"
                            THEN <<defCurrentViewId>> ELSE <<>>
           /\ fx'.added = <<call'.id>>
           /\ fx'.active = <<call'.id>>
           /\ tabs' = tabs
           /\ defTabConfigs' = defTabConfigs
           /\ ~fx'.threw)]_vars

\* of the tabs 1, 2, 3 the last was active; switch-tab 1 took 3 off the window
\* and put 1 on it
C23_Witness ==
  /\ call.op = "switch-tab" /\ call.id = 1 /\ tabs = <<1, 2, 3>>
  /\ defCurrentViewId = 1 /\ attached = {1}
  /\ fx.removed = <<3>> /\ fx.added = <<1>> /\ fx.active = <<1>>

\* C24: once ipc is set by 'control-ready', every step that changes the order
\* or the metadata map sends a tabs-update, and the last one it sends carries
\* the map and the order as the step leaves them; so what was changed before
\* 'control-ready' is in the tabs-update 'control-ready' sends.
C24_MutationSendsSnapshot ==
  [][(ipc' /\ (tabs' # tabs \/ defTabConfigs' # defTabConfigs))
       => (/\ fx'.snapshots # <<>>
           /\ fx'.snapshots[Len(fx'.snapshots)].confs = defTabConfigs'
           /\ fx'.snapshots[Len(fx'.snapshots)].tabs = tabs')]_vars

\* tab 1 was made before the control panel was mounted: the tabs-update of
\* 'control-ready' holds it and the start-page tab 2
C24_Witness ==
  /\ call.op = "control-ready" /\ call.id = 2 /\ tabs = <<1, 2>>
  /\ Len(fx.snapshots) = 1
  /\ IsTab(fx.snapshots[1].confs[1]) /\ IsTab(fx.snapshots[1].confs[2])
  /\ fx.snapshots[1].tabs = <<1, 2>>

\* C25 (as claimed): for every tabs-update, the tabs the control panel renders
\* are the ids of the order sequence, in the same order.
C25_PanelShowsOrder ==
  \A k \in 1..Len(fx.snapshots) :
    tabsValue(fx.snapshots[k].confs) = fx.snapshots[k].tabs

\* order without the id at its one place
Without(order, id) ==
  LET i == CHOOSE k \in 1..Len(order) : order[k] = id
  IN [k \in 1..(Len(order) - 1) |-> IF k < i THEN order[k] ELSE order[k + 1]]

\* C26: close-tab of an open tab that is not the active selection leaves the
\* active selection and the views on the window as they were, takes only that
\* id out of the order, the others keeping their places, and destroys only
\* that tab's view.
C26_CloseInactiveKeepsActive ==
  [][(call'.op = "close-tab" /\ views[call'.id] = "view" /\ call'.id # defCurrentViewId)
       => (/\ defCurrentViewId' = defCurrentViewId
           /\ attached' = attached
           /\ fx'.removed = <<>> /\ fx'.added = <<>> /\ fx'.active = <<>>
           /\ tabs' = Without(tabs, call'.id)
           /\ destroyed' = destroyed \cup {call'.id}
           /\ \A i \in IdSpace \ {call'.id} : views'[i] = views[i]
           /\ views'[call'.id] = "null")]_vars

\* of the tabs 1, 2, 3 the last is active; close-tab 2 left 1 and 3 and the
\* view of 3 on the window
C26_Witness ==
  /\ call.op = "close-tab" /\ call.id = 2 /\ tabs = <<1, 3>>
  /\ defCurrentViewId = 3 /\ attached = {3} /\ destroyed = {2}
  /\ views[1] = "view" /\ views[3] = "view" /\ fx.removed = <<>>

\* the navigation events loadURL installs handlers for
NavigationEvents ==
  {"did-start-loading", "did-start-navigation", "will-redirect", "page-title-updated",
   "page-favicon-updated", "did-stop-loading"}

\* C27: a navigation event of the surface of a tab changes the metadata entry
\* of that tab only, also when another tab is active: the other entries, the
\* order and the active selection stay; isLoading of the tab is true after
\* did-start-loading and false after did-stop-loading.
C27_EventUpdatesOwnTabOnly ==
  [][call'.op \in NavigationEvents
       => (/\ \A j \in IdSpace \ {call'.id} : defTabConfigs'[j] = defTabConfigs[j]
           /\ IsTab(defTabConfigs'[call'.id])
           /\ \A f \in DOMAIN call'.kv : defTabConfigs'[call'.id][f] = call'.kv[f]
           /\ tabs' = tabs
           /\ defCurrentViewId' = defCurrentViewId
           /\ attached' = attached
           /\ call'.op = "did-start-loading" => defTabConfigs'[call'.id]["isLoading"] = "true"
           /\ call'.op = "did-stop-loading" => defTabConfigs'[call'.id]["isLoading"] = "false")]_vars

\* tab 1 stopped loading while tab 2 was active
C27_Witness ==
  /\ call.op = "did-stop-loading" /\ call.id = 1 /\ defCurrentViewId = 2
  /\ tabs = <<1, 2>> /\ defTabConfigs[1]["isLoading"] = "false"
  /\ "isLoading" \notin DOMAIN defTabConfigs[2]

\* C28 (as claimed): after every operation cfg.tabItemCount is the number of
\* ids in the order sequence, and it is never negative.
C28_CountIsLenOfOrder == tabItemCount = Len(tabs) /\ tabItemCount >= 0

\* C29 (as claimed): the reload button of the window chrome and the 'act'
\* actions, used while there is no live active surface, call nothing and
\* raise nothing.
C29_NoActiveSurfaceIsNoOp ==
  [][(call'.op \in {"refreshWin", "act"} /\ currentView(This) = NoId)
       => (~fx'.threw /\ fx'.acted = <<>>)]_vars
====
